---------------------------- MODULE Spec2Model ----------------------------
(***************************************************************************)
(* Text-2-Beluga: the four consumers of the script mini-language           *)
(*   ScriptValidator.validate            (core/validator.py)               *)
(*   ChatGenerator.process_script        (core/generator.py)               *)
(*   VideoCompiler._parse_script         (core/compiler.py)                *)
(*   AudioProcessor._parse_script_lines  (core/audio.py)                   *)
(* read the same file line by line.  The model feeds one line at a time to *)
(* the loop body of each consumer (ReadLine) and then ends the file        *)
(* (Finish), where VideoCompiler._process_audio lays the sound cues out.   *)
(*                                                                         *)
(* A line is the sequence of its lexical tokens after strip(): words,      *)
(* numbers and the delimiters "$^", "#!", ":" and "#".  Durations are in   *)
(* tenths of a second, so that 0.1 s is the integer 1.                     *)
(*                                                                         *)
(* Drawing (fonts, Pillow, pilmoji) is outside the model: generate_chat    *)
(* and generate_joined_message are modelled by their guard on the          *)
(* character name and by the image they save.                              *)
(***************************************************************************)
EXTENDS Integers, Sequences, FiniteSets, TLC

(***************************************************************************)
(* Bounds of the exploration.                                              *)
(***************************************************************************)
MaxLines == 4

MaxImages == 2

\* the lines of a script given to the validator alone
MaxValidatedLines == 3

\* the tokens of a message given to the segment parser
MaxTokens == 4

(***************************************************************************)
(* Program constants.                                                      *)
(***************************************************************************)
\* process_script(frame_duration: int = 30), in tenths of a second
FrameDuration == 300

\* ScriptValidator(allowed_duration_range = (0.1, 30.0)), in tenths
MinDuration == 1

MaxDuration == 300

\* ScriptValidator(max_line_length = 200)
MaxLineLength == 200

\* self.characters: the names of characters.json
Characters == { <<"Alice">>, <<"Bob">> }

\* the files of assets/sounds/mp3, without ".mp3"
SoundFiles == { <<"chime">> }

\* sound is None (and the empty string, which Python also treats as false)
NoSound == << >>

\* current_character = None
NoCharacter == <<"None">>

(***************************************************************************)
(* The lines the exploration draws from.                                   *)
(***************************************************************************)
ScriptLines ==
  { << >>,                                          \* blank
    <<"#", "note">>,                                \* comment
    <<"Alice", ":">>,                               \* name line
    <<"Bob", ":">>,                                 \* name line
    <<"hi", "$^", "2.0">>,                          \* message, 2.0 s
    <<"yo", "$^", "3.5", "#!", "chime">>,           \* message with a sound
    <<"hm", "$^", "abc">>,                          \* non-numeric duration
    <<"no", "$^", "-5.0">>,                         \* negative duration
    <<"re", ":", "ok", "$^", "1.0">>,               \* message holding ':'
    <<"oh", "$^", "2.0", "$^", "3.5">>,             \* $^ twice
    <<"WELCOME", "Alice", "$^", "2.0">>,            \* join message
    <<"WELCOME", "Zed", "$^", "2.0">>,              \* unknown character
    <<"WELCOME", "Bob", "$^", "1.0", "#!", "chime">>,  \* join with a sound
    <<"WELCOME", "Bob">> }                          \* WELCOME without $^

(***************************************************************************)
(* The lines the exploration of the validator alone draws from.            *)
(***************************************************************************)
ValidatorLines ==
  { << >>,                                          \* blank
    <<"#", "w200">>,                                \* comment, 201 characters
    <<"Alice", ":">>,                               \* name line
    <<":">>,                                        \* empty name
    <<"Al", "  ", "ice", ":">>,                     \* two blanks in the name
    <<"w200", ":">>,                                \* name line, 201 characters
    <<"hi", "$^", "2.0">>,                          \* message, 2.0 s
    <<"**", "b", "**", "yo", "$^", "3.5", "#!", "chime">>,  \* bold, sound
    <<"**", "um", "$^", "31">>,                     \* odd **, 31 s
    <<"hm", "$^", "abc">>,                          \* non-numeric duration
    <<"ok", "$^", "0.1">>,                          \* the least duration
    <<"ok", "$^", "30.0">>,                         \* the greatest duration
    <<"ok", "$^", "0">>,                            \* zero
    <<"ok", "$^", "-5.0">>,                         \* negative
    <<"ok", "$^", "30.1">>,                         \* just above the range
    <<"hey", "@", "$^", "2.0">>,                    \* '@' and no word after it
    <<"hey", "@bob", "$^", "2.0">>,                 \* mention
    <<"w195", "$^", "2.0">>,                        \* message, 200 characters
    <<"w196", "$^", "2.0">>,                        \* message, 201 characters
    <<"w196", "$^", "31">>,                         \* 201 characters and 31 s
    <<"WELCOME", "Bob", "$^", "30.0">>,             \* join, greatest duration
    <<"WELCOME", "Bob", "$^", "31">>,               \* join, 31 s
    <<"WELCOME", "w200", "$^", "2.0">> }            \* join, 210 characters

(***************************************************************************)
(* Python string operations on token sequences.                            *)
(***************************************************************************)
\* tok in s
Contains(s, tok) == \E i \in 1..Len(s) : s[i] = tok

\* s.find(tok): the first position of tok, 0 when absent
FirstIdx(s, tok) ==
  IF Contains(s, tok)
  THEN CHOOSE i \in 1..Len(s) : s[i] = tok /\ \A j \in 1..(i-1) : s[j] # tok
  ELSE 0

\* s.split(tok, 1)
SplitFirst(s, tok) ==
  LET i == FirstIdx(s, tok)
  IN IF i = 0 THEN << s >>
     ELSE << SubSeq(s, 1, i-1), SubSeq(s, i+1, Len(s)) >>

\* s.split(tok)
RECURSIVE SplitAll(_, _)
SplitAll(s, tok) ==
  LET i == FirstIdx(s, tok)
  IN IF i = 0 THEN << s >>
     ELSE << SubSeq(s, 1, i-1) >> \o SplitAll(SubSeq(s, i+1, Len(s)), tok)

\* s.startswith(tok)
StartsWith(s, tok) == Len(s) > 0 /\ s[1] = tok

\* the numbers float() accepts, in tenths of a second
FloatValue(tok) ==
  CASE tok = "-5.0" -> -50
    [] tok = "0"    -> 0
    [] tok = "0.1"  -> 1
    [] tok = "1.0"  -> 10
    [] tok = "2.0"  -> 20
    [] tok = "3.5"  -> 35
    [] tok = "30.0" -> 300
    [] tok = "30.1" -> 301
    [] tok = "31"   -> 310

NumberTokens ==
  { "-5.0", "0", "0.1", "1.0", "2.0", "3.5", "30.0", "30.1", "31" }

\* len(tok); a word written w<n> stands for a word of n characters
TokenLength(tok) ==
  CASE tok = "w195" -> 195
    [] tok = "w196" -> 196
    [] tok = "w200" -> 200
    [] OTHER -> Len(tok)

\* len(line), the blanks between the tokens left out
RECURSIVE LineLength(_)
LineLength(line) ==
  IF line = << >> THEN 0
  ELSE TokenLength(Head(line)) + LineLength(Tail(line))

\* float(s) raises ValueError unless s is one number (blanks around it are
\* stripped by float itself)
FloatOk(s) == Len(s) = 1 /\ s[1] \in NumberTokens

Float(s) == FloatValue(s[1])


VARIABLES
  script,          \* the lines of the file read so far
  eof,             \* the file has ended and the consumers have returned
  a_name_up_next,  \* audio.py: name_up_next
  a_time,          \* audio.py: current_time of _parse_script_audio_events
  a_lines,         \* audio.py: the tuples _parse_script_lines has yielded
  a_events,        \* audio.py: the AudioEvents yielded
  a_raised,        \* audio.py: _parse_script_lines has raised
  image_files,     \* compiler.py: len(image_files), the PNGs of image_dir
  c_frames,        \* compiler.py: frames of _parse_script
  c_index,         \* compiler.py: current_index
  c_raised,        \* compiler.py: _parse_script has raised
  c_clips,         \* compiler.py: audio_clips of _process_audio
  g_character,     \* generator.py: current_character
  g_messages,      \* generator.py: current_messages
  g_msg_number,    \* generator.py: msg_number
  g_time,          \* generator.py: current_time - datetime.now() at the start
  g_frames,        \* generator.py: the images saved in output_dir
  g_raised,        \* generator.py: process_script has raised
  v_state,         \* validator.py: state
  v_errors,        \* validator.py: errors
  p_message,       \* generator.py: message of _parse_message_segments
  p_tokens,        \* generator.py: the tokens the loop has still to take
  p_bold,          \* generator.py: bold
  p_italic,        \* generator.py: italic
  p_segments,      \* generator.py: segments
  r_messages,      \* generator.py: messages of _render_messages
  r_index,         \* generator.py: the messages _render_messages has taken
  r_done,          \* generator.py: the segment lists of the messages drawn
  a_clips,         \* audio.py: audio_clips of _create_audio_composite
  x_script,        \* the script file both runs of the parsers read
  x_run,           \* which run of the parsers is going on: 1 or 2
  x_first,         \* what the first run returned
  w_text,          \* helpers.py: text of wrap_text, a list of words
  w_width,         \* helpers.py: width of wrap_text
  w_called,        \* wrap_text has returned
  w_lines,         \* helpers.py: lines, as wrap_text returns it
  l_messages,      \* messages.py: messages of generate_messages
  l_measure,       \* messages.py: what font.getlength gives for " " and "a"
  l_required,      \* messages.py: required_height
  l_y_offset,      \* messages.py: y_offset after the loop
  menu_stack,      \* interface.py: self.menu_stack
  current_row,     \* interface.py: self.current_row
  should_exit,     \* interface.py: self.should_exit
  final_video,     \* Paths.FINAL_VIDEO exists
  u_chat,          \* how the last run_generate_chat went
  u_handler,       \* the label of the menu item whose handler ran last
  u_raised         \* an exception left BelugaUI.run

audio_vars == << a_name_up_next, a_time, a_lines, a_events, a_raised >>

compiler_vars == << image_files, c_frames, c_index, c_raised, c_clips >>

generator_vars ==
  << g_character, g_messages, g_msg_number, g_time, g_frames, g_raised >>

validator_vars == << v_state, v_errors >>

parser_vars == << p_message, p_tokens, p_bold, p_italic, p_segments >>

render_vars == << r_messages, r_index, r_done >>

\* the state of the script consumers
script_vars == << script, eof, audio_vars, compiler_vars, generator_vars,
                 validator_vars >>

\* the state beside the script consumers and the segment parser
rerun_vars == << x_script, x_run, x_first >>

wrap_vars == << w_text, w_width, w_called, w_lines >>

layout_vars == << l_messages, l_measure, l_required, l_y_offset >>

ui_vars == << menu_stack, current_row, should_exit, final_video, u_chat,
             u_handler, u_raised >>

more_vars == << render_vars, a_clips, rerun_vars, wrap_vars, layout_vars,
               ui_vars >>

vars == << script_vars, parser_vars, more_vars >>

\* the number of the line being read (enumerate(f, start=1))
LineNumber == Len(script) + 1

\* `if not line or line.startswith('#'): continue`
IsBlank(line) == line = << >>

IsComment(line) == StartsWith(line, "#")

IsWelcome(line) == StartsWith(line, "WELCOME")

(***************************************************************************)
(* core/audio.py                                                           *)
(***************************************************************************)
\* parts[1].split('#!')[0].strip()
DurationStr(field) == SplitAll(field, "#!")[1]

\* parts[1].split('#!')[1].strip() if '#!' in parts[1] else None
SoundName(field) ==
  IF Contains(field, "#!") THEN SplitAll(field, "#!")[2] ELSE NoSound

\* mutant: the clock moves only inside `if sound:`
AudioAdvanceOnlyWithSound(time, duration, sound) ==
  IF sound # NoSound THEN time + duration ELSE time

\* mutant: `current_time = duration`
AudioAdvanceAssign(time, duration, sound) == duration

\* `current_time += duration`, after the `if sound:` of either branch
AudioAdvance(time, duration, sound) == time + duration

\* one tuple of _parse_script_lines reaches _parse_script_audio_events
AudioYield(kind, duration, sound) ==
  /\ a_lines' = Append(a_lines, [kind |-> kind, duration |-> duration,
                                 sound |-> sound, line |-> LineNumber])
  /\ a_events' =
       IF sound # NoSound
       THEN Append(a_events, [start_time |-> a_time, sound |-> sound,
                              duration |-> duration, line |-> LineNumber])
       ELSE a_events
  /\ a_time' = AudioAdvance(a_time, duration, sound)

\* `elif ':' in line and name_up_next`
AudioIsNameLine(line) == Contains(line, ":") /\ a_name_up_next

\* mutant: a duration that is no number falls back to the default duration
AudioParseFieldDefault(kind, field) ==
  IF FloatOk(DurationStr(field))
  THEN AudioYield(kind, Float(DurationStr(field)), SoundName(field))
  ELSE AudioYield(kind, FrameDuration, SoundName(field))

\* the duration field of a WELCOME or message line is parsed and yielded;
\* a ValueError of float() is caught and the line skipped
AudioParseField(kind, field) ==
  IF FloatOk(DurationStr(field))
  THEN AudioYield(kind, Float(DurationStr(field)), SoundName(field))
  ELSE UNCHANGED << a_time, a_lines, a_events >>

\* the body of `for line in f` in _parse_script_lines, with the consumer
\* of its tuples in _parse_script_audio_events
AudioLine(line) ==
  IF a_raised \/ IsBlank(line) \/ IsComment(line)
  THEN UNCHANGED audio_vars
  ELSE IF IsWelcome(line)
  THEN LET parts == SplitFirst(line, "$^")
       IN IF Len(parts) < 2
          THEN \* parts[1]: IndexError
               /\ a_raised' = TRUE
               /\ UNCHANGED << a_name_up_next, a_time, a_lines, a_events >>
          ELSE /\ AudioParseField("welcome", parts[2])
               /\ UNCHANGED << a_name_up_next, a_raised >>
  ELSE IF AudioIsNameLine(line)
  THEN /\ a_name_up_next' = FALSE
       /\ UNCHANGED << a_time, a_lines, a_events, a_raised >>
  ELSE IF Contains(line, "$^")
  THEN /\ AudioParseField("message", SplitFirst(line, "$^")[2])
       /\ UNCHANGED << a_name_up_next, a_raised >>
  ELSE \* `elif line == ''` is never true here: blank lines were skipped
       UNCHANGED audio_vars

\* AudioFileClip(path).duration, in tenths of a second: the sound files of
\* the exploration play 5.0 s
SoundLength(sound) == 50

\* the loop of _create_audio_composite: an event whose sound file is
\* missing is passed over; a clip longer than the event is cut to
\* event.duration by subclip, and set_start(event.start_time) places it
RECURSIVE CreateAudioComposite(_, _)
CreateAudioComposite(events, audio_clips) ==
  IF events = << >> THEN audio_clips
  ELSE LET event == Head(events)
           whole == SoundLength(event.sound)
           audio_clip == IF whole > event.duration THEN event.duration
                         ELSE whole
       IN IF event.sound \notin SoundFiles
          THEN CreateAudioComposite(Tail(events), audio_clips)
          ELSE CreateAudioComposite(Tail(events),
                 Append(audio_clips,
                        [start |-> event.start_time, sound |-> event.sound,
                         length |-> audio_clip, line |-> event.line]))

(***************************************************************************)
(* core/compiler.py                                                        *)
(***************************************************************************)
\* int(x.stem) of an image file name of three digits
StemInt(stem) == 100 * stem[1] + 10 * stem[2] + stem[3]

\* sorted([... image_dir.glob("*.png") ...], key=lambda x: int(x.stem))
RECURSIVE SortedImageFiles(_)
SortedImageFiles(dir) ==
  IF dir = {} THEN << >>
  ELSE LET first == CHOOSE f \in dir :
                      \A h \in dir : StemInt(f) <= StemInt(h)
       IN << first >> \o SortedImageFiles(dir \ { first })

\* `if current_index < len(image_files): frames.append(...)`
CompilerAppend(duration, sound) ==
  IF c_index < image_files
  THEN /\ c_frames' = Append(c_frames, [image |-> c_index + 1,
                                        duration |-> duration,
                                        sound |-> sound, line |-> LineNumber])
       /\ c_index' = c_index + 1
  ELSE UNCHANGED << c_frames, c_index >>

\* the body of `for line in f` in _parse_script
CompilerLine(line) ==
  IF c_raised \/ IsBlank(line) \/ IsComment(line)
  THEN UNCHANGED compiler_vars
  ELSE LET parts == SplitAll(line, "$^")
       IN IF Len(parts) < 2
          THEN \* WELCOME: `if len(parts) < 2`; else: `if '$^' not in line`
               UNCHANGED compiler_vars
          ELSE IF ~ FloatOk(DurationStr(parts[2]))
          THEN UNCHANGED compiler_vars
          ELSE IF IsWelcome(line) /\ Contains(parts[2], "#!")
          THEN \* Paths.SOUNDS: compiler.py does not import Paths (NameError)
               /\ c_raised' = TRUE
               /\ UNCHANGED << image_files, c_frames, c_index, c_clips >>
          ELSE /\ CompilerAppend(Float(DurationStr(parts[2])),
                                 SoundName(parts[2]))
               /\ UNCHANGED << image_files, c_raised, c_clips >>

\* the loop of _process_audio: a clip is placed at current_time for every
\* frame whose sound file exists, the whole file as it is, and the clock
\* moves on by frame.duration
RECURSIVE ProcessAudioLoop(_, _, _)
ProcessAudioLoop(frames, current_time, audio_clips) ==
  IF frames = << >> THEN audio_clips
  ELSE LET frame == Head(frames)
           placed == IF frame.sound # NoSound /\ frame.sound \in SoundFiles
                     THEN Append(audio_clips,
                                 [start |-> current_time, sound |-> frame.sound,
                                  length |-> SoundLength(frame.sound),
                                  line |-> frame.line])
                     ELSE audio_clips
       IN ProcessAudioLoop(Tail(frames), current_time + frame.duration, placed)

ProcessAudio(frames) == ProcessAudioLoop(frames, 0, << >>)

(***************************************************************************)
(* core/generator.py                                                       *)
(***************************************************************************)
\* `if character_name not in self.characters: raise ValueError`, the guard
\* of generate_chat and of generate_joined_message
KnownCharacter(name) == name \in Characters

\* `line.split()[1].split('$^')[0]`, for a line of at least two words
WelcomeName(line) == SplitAll(<< line[2] >>, "$^")[1]

\* f"{msg_number:03d}", the stem of the image written, as its digits
OutputStem(n) == << n \div 100, (n \div 10) % 10, n % 10 >>

\* mutant: msg_number is not incremented
NextMsgNumberSame(n) == n

\* `msg_number += 1`
NextMsgNumber(n) == n + 1

\* `elif ':' in line and not current_messages`
GeneratorIsNameLine(line) == Contains(line, ":") /\ g_messages = << >>

\* process_script raises: the loop ends with what it has written so far
GeneratorRaise ==
  /\ g_raised' = TRUE
  /\ UNCHANGED << g_character, g_msg_number, g_time >>

\* the WELCOME branch of process_script
GeneratorWelcome(line) ==
  LET parts == SplitAll(line, "$^")
  IN IF Len(line) < 2
     THEN \* line.split()[1]: IndexError
          GeneratorRaise /\ UNCHANGED << g_messages, g_frames >>
     ELSE IF Len(parts) > 1 /\ ~ FloatOk(DurationStr(parts[2]))
     THEN \* float(): ValueError, not caught
          GeneratorRaise /\ UNCHANGED << g_messages, g_frames >>
     ELSE IF ~ KnownCharacter(WelcomeName(line))
     THEN GeneratorRaise /\ UNCHANGED << g_messages, g_frames >>
     ELSE LET duration == IF Len(parts) > 1
                          THEN Float(DurationStr(parts[2]))
                          ELSE FrameDuration
          IN /\ g_frames' = Append(g_frames,
                  [number |-> g_msg_number, kind |-> "joined",
                   character |-> WelcomeName(line), messages |-> << >>,
                   line |-> LineNumber])
             /\ g_time' = g_time + duration
             /\ g_msg_number' = NextMsgNumber(g_msg_number)
             /\ UNCHANGED << g_character, g_messages, g_raised >>

\* the message branch of process_script; the entry of current_messages is
\* line.split('$^', 1), kept here with the number of its line
GeneratorMessage(line) ==
  LET message_part == SplitFirst(line, "$^")
      messages == Append(g_messages, [text |-> message_part[1],
                                      rest |-> message_part[2],
                                      line |-> LineNumber])
      duration_part == SplitAll(SplitAll(line, "$^")[2], "#!")[1]
      frame == [number |-> g_msg_number, kind |-> "chat",
                character |-> g_character, messages |-> messages,
                line |-> LineNumber]
  IN /\ g_messages' = messages
     /\ IF ~ KnownCharacter(g_character)
        THEN GeneratorRaise /\ UNCHANGED g_frames
        ELSE /\ g_frames' = Append(g_frames, frame)
             /\ IF duration_part # << >> /\ ~ FloatOk(duration_part)
                THEN \* float(): ValueError, after the image was saved
                     GeneratorRaise
                ELSE /\ g_time' = g_time + (IF duration_part # << >>
                                            THEN Float(duration_part)
                                            ELSE FrameDuration)
                     /\ g_msg_number' = NextMsgNumber(g_msg_number)
                     /\ UNCHANGED << g_character, g_raised >>

\* the body of `for line in lines` in process_script
GeneratorLine(line) ==
  IF g_raised \/ IsBlank(line) \/ IsComment(line)
  THEN UNCHANGED generator_vars
  ELSE IF IsWelcome(line)
  THEN GeneratorWelcome(line)
  ELSE IF GeneratorIsNameLine(line)
  THEN /\ g_character' = SplitAll(line, ":")[1]
       /\ g_messages' = << >>
       /\ UNCHANGED << g_msg_number, g_time, g_frames, g_raised >>
  ELSE IF Contains(line, "$^")
  THEN GeneratorMessage(line)
  ELSE UNCHANGED generator_vars

(***************************************************************************)
(* core/validator.py                                                       *)
(***************************************************************************)
\* _validate_* return None
NoError == "None"

\* s.count(tok)
RECURSIVE Count(_, _)
Count(s, tok) ==
  IF s = << >> THEN 0
  ELSE (IF Head(s) = tok THEN 1 ELSE 0) + Count(Tail(s), tok)

\* re.match(r'^[\w-]+$', sound_name): one word, no delimiter in it
IsWord(s) ==
  Len(s) = 1 /\ s[1] \notin { "$^", "#!", ":", "#", "**", "__", "@", "  " }

\* _validate_sound_effect
ValidateSoundEffect(sound_name) ==
  IF ~ IsWord(sound_name) THEN "Invalid sound name format"
  ELSE IF sound_name \notin SoundFiles THEN "Sound effect not found"
  ELSE NoError

\* mutant: the bounds of the range are left out of it
DurationInRangeOpen(duration) ==
  MinDuration < duration /\ duration < MaxDuration

\* `self.min_duration <= duration <= self.max_duration`
DurationInRange(duration) ==
  MinDuration <= duration /\ duration <= MaxDuration

\* _validate_duration_part
ValidateDurationPart(duration_part) ==
  LET duration_str == DurationStr(duration_part)
      sound_part == SoundName(duration_part)
  IN IF ~ FloatOk(duration_str) THEN "Invalid duration format"
     ELSE IF ~ DurationInRange(Float(duration_str))
     THEN "Duration out of allowed range"
     ELSE IF sound_part # NoSound THEN ValidateSoundEffect(sound_part)
     ELSE NoError

\* _validate_welcome_line
ValidateWelcomeLine(line) ==
  IF Len(line) < 2 THEN "WELCOME line must start with 'WELCOME '"
  ELSE IF Len(SplitAll(line, "$^")) < 2
  THEN "WELCOME line missing duration separator ($^)"
  ELSE ValidateDurationPart(SplitAll(line, "$^")[2])

\* _validate_name_line
ValidateNameLine(line) ==
  IF ~ Contains(line, ":")
  THEN "Name line missing required colon (:) separator"
  ELSE IF SplitFirst(line, ":")[1] = << >>
  THEN "Name part before colon is empty"
  ELSE IF Contains(SplitFirst(line, ":")[1], "  ")
  THEN "Name contains consecutive spaces"
  ELSE NoError

\* the tokens @\w+ matches: '@' and at least one word character
MentionTokens == { "@alice", "@bob" }

\* self.mention_pattern.findall(message)
Mentions(message) ==
  { message[i] : i \in { j \in 1..Len(message) : message[j] \in MentionTokens } }

\* _validate_message_content
ValidateMessageContent(message) ==
  IF Count(message, "**") % 2 # 0 THEN "Unbalanced bold markers (**)"
  ELSE IF Count(message, "__") % 2 # 0 THEN "Unbalanced italic markers (__)"
  ELSE IF \E mention \in Mentions(message) : TokenLength(mention) < 2
  THEN "Invalid mention format"
  ELSE NoError

\* _validate_message_line
ValidateMessageLine(line) ==
  IF ~ Contains(line, "$^")
  THEN "Message line missing required duration separator ($^)"
  ELSE LET parts == SplitFirst(line, "$^")
       IN IF ValidateMessageContent(parts[1]) # NoError
          THEN ValidateMessageContent(parts[1])
          ELSE ValidateDurationPart(parts[2])

\* the error of the line, by the kind the validator gives the line
ValidatorError(line) ==
  IF IsWelcome(line) THEN ValidateWelcomeLine(line)
  ELSE IF v_state = "waiting_for_name" THEN ValidateNameLine(line)
  ELSE ValidateMessageLine(line)

\* mutant: the WELCOME test comes after the state test, so that a WELCOME
\* line read while waiting for a name is taken for the name line
ValidatorNextStateAnyLine(line, error) ==
  IF v_state = "waiting_for_name" /\ error = NoError
  THEN "collecting_messages"
  ELSE v_state

\* `state = "collecting_messages" if not error else state`, reached only in
\* the branch `elif state == "waiting_for_name"`, after the WELCOME branch;
\* the reset under `if "name line" in error.message.lower()` finds the state
\* already waiting_for_name
ValidatorNextState(line, error) ==
  IF ~ IsWelcome(line) /\ v_state = "waiting_for_name" /\ error = NoError
  THEN "collecting_messages"
  ELSE v_state

\* the body of `for line_number, line in line_gen` in validate: the blank
\* line and the comment `continue` before the check of the line length
ValidatorLine(line) ==
  IF IsBlank(line)
  THEN /\ v_state' = "waiting_for_name"
       /\ UNCHANGED v_errors
  ELSE IF IsComment(line)
  THEN UNCHANGED validator_vars
  ELSE LET error == ValidatorError(line)
           found == IF error # NoError
                    THEN Append(v_errors, [line_number |-> LineNumber,
                                           message |-> error])
                    ELSE v_errors
       IN /\ v_state' = ValidatorNextState(line, error)
          /\ v_errors' =
               IF LineLength(line) > MaxLineLength
               THEN Append(found, [line_number |-> LineNumber,
                                   message |-> "Line exceeds maximum length"])
               ELSE found

(***************************************************************************)
(* The file is read line by line; every consumer runs its loop body on     *)
(* the line.                                                               *)
(***************************************************************************)
ScriptInit ==
  /\ script = << >>
  /\ eof = FALSE
  /\ a_name_up_next = TRUE
  /\ a_time = 0
  /\ a_lines = << >>
  /\ a_events = << >>
  /\ a_raised = FALSE
  /\ image_files \in 1..MaxImages
  /\ c_frames = << >>
  /\ c_index = 0
  /\ c_raised = FALSE
  /\ c_clips = << >>
  /\ g_character = NoCharacter
  /\ g_messages = << >>
  /\ g_msg_number = 1
  /\ g_time = 0
  /\ g_frames = << >>
  /\ g_raised = FALSE
  /\ v_state = "waiting_for_name"
  /\ v_errors = << >>

\* _parse_message_segments is not running
ParserIdle ==
  /\ p_message = << >>
  /\ p_tokens = << >>
  /\ p_bold = FALSE
  /\ p_italic = FALSE
  /\ p_segments = << >>

\* _render_messages is not running
RenderIdle ==
  /\ r_messages = << >>
  /\ r_index = 0
  /\ r_done = << >>

\* no second run of the parsers
RerunIdle ==
  /\ x_script = << >>
  /\ x_run = 0
  /\ x_first = << >>

\* wrap_text is not called
WrapIdle ==
  /\ w_text = << >>
  /\ w_width = 0
  /\ w_called = FALSE
  /\ w_lines = << >>

\* generate_messages is not called
LayoutIdle ==
  /\ l_messages = << >>
  /\ l_measure = << >>
  /\ l_required = 0
  /\ l_y_offset = 0

\* no BelugaUI
InterfaceIdle ==
  /\ menu_stack = << >>
  /\ current_row = 0
  /\ should_exit = FALSE
  /\ final_video = FALSE
  /\ u_chat = [outcome |-> "none", video_before |-> FALSE]
  /\ u_handler = "none"
  /\ u_raised = FALSE

\* nothing beside the script consumers and the segment parser is running
MoreIdle ==
  /\ RenderIdle
  /\ a_clips = << >>
  /\ RerunIdle
  /\ WrapIdle
  /\ LayoutIdle
  /\ InterfaceIdle

Init == ScriptInit /\ ParserIdle /\ MoreIdle

ReadLine(line) ==
  /\ ~ eof
  /\ Len(script) < MaxLines
  /\ script' = Append(script, line)
  /\ AudioLine(line)
  /\ CompilerLine(line)
  /\ GeneratorLine(line)
  /\ ValidatorLine(line)
  /\ UNCHANGED << eof, parser_vars, more_vars >>

\* end of file: the loops end, and compile() goes on to _process_audio when
\* _parse_script returned frames (_generate_concat_file reads frames[-1])
Finish ==
  /\ ~ eof
  /\ eof' = TRUE
  /\ c_clips' = IF c_raised \/ c_frames = << >> THEN << >>
                ELSE ProcessAudio(c_frames)
  /\ a_clips' = IF a_raised THEN << >>
                ELSE CreateAudioComposite(a_events, << >>)
  /\ UNCHANGED << script, audio_vars, generator_vars, validator_vars,
                  image_files, c_frames, c_index, c_raised, parser_vars,
                  render_vars, rerun_vars, wrap_vars, layout_vars, ui_vars >>

Next ==
  \/ \E line \in ScriptLines : ReadLine(line)
  \/ Finish

Spec == Init /\ [][Next]_vars

(***************************************************************************)
(* ScriptValidator.validate run alone on a script (BelugaUI.run_validate). *)
(* Reading the file can fail with UnicodeDecodeError between any two       *)
(* lines: the text is decoded block by block while the lines are read.     *)
(***************************************************************************)
InitValidator == Init /\ image_files = 1

\* one pass of `for line_number, line in line_gen`
ValidateLine(line) ==
  /\ ~ eof
  /\ Len(script) < MaxValidatedLines
  /\ script' = Append(script, line)
  /\ ValidatorLine(line)
  /\ UNCHANGED << eof, audio_vars, compiler_vars, generator_vars,
                  parser_vars, more_vars >>

\* mutant: the failure is recorded and the loop goes on
DecodeFailsGoesOn ==
  /\ ~ eof
  /\ v_errors' = Append(v_errors, [line_number |-> 0,
                                   message |-> "File decoding failed"])
  /\ UNCHANGED << script, eof, v_state, audio_vars, compiler_vars,
                  generator_vars, parser_vars, more_vars >>

\* `except UnicodeDecodeError`, and `return errors`
DecodeFails ==
  /\ ~ eof
  /\ eof' = TRUE
  /\ v_errors' = Append(v_errors, [line_number |-> 0,
                                   message |-> "File decoding failed"])
  /\ UNCHANGED << script, v_state, audio_vars, compiler_vars,
                  generator_vars, parser_vars, more_vars >>

\* the file ends: `return errors`
ValidateReturns ==
  /\ ~ eof
  /\ eof' = TRUE
  /\ UNCHANGED << script, validator_vars, audio_vars, compiler_vars,
                  generator_vars, parser_vars, more_vars >>

NextValidator ==
  \/ \E line \in ValidatorLines : ValidateLine(line)
  \/ DecodeFails
  \/ ValidateReturns

SpecValidator == InitValidator /\ [][NextValidator]_vars

(***************************************************************************)
(* ChatGenerator._parse_message_segments run on one message.  A message is *)
(* the sequence of its lexical tokens, the blank " " among them.           *)
(***************************************************************************)
WordTokens == { "a", "b", "bold", "plain" }

\* the tokens the messages of the exploration are made of
SegmentTokens == { "**", "__", "@bob", "@", " ", "a", "b" }

\* no word follows '@' or a mention without a blank: it would be part of it
WellLexed(message) ==
  \A i \in 1..(Len(message) - 1) :
    message[i] \in MentionTokens \cup { "@" } => message[i+1] \notin WordTokens

Messages ==
  { message \in UNION { [1..n -> SegmentTokens] : n \in 0..MaxTokens } :
      WellLexed(message) }
  \cup { <<"**", "a", "**", " ", "**", "b">>,
         <<"@alice", " ", "**", "bold", "**", " ", "plain">>,
         <<"**", "bold", " ", "@bob", " ", "**", " ", "plain">> }

\* the pattern of re.split: \*\*|__|@\w+
IsMarker(tok) == tok \in { "**", "__" } \cup MentionTokens

\* re.split(r'(\*\*|__|@\w+)', message): the text before the first match,
\* the match, and the split of the rest; a text can be empty
RECURSIVE ReSplit(_)
ReSplit(message) ==
  IF \E i \in 1..Len(message) : IsMarker(message[i])
  THEN LET i == CHOOSE k \in 1..Len(message) :
                  /\ IsMarker(message[k])
                  /\ \A j \in 1..(k-1) : ~ IsMarker(message[j])
       IN << SubSeq(message, 1, i-1), << message[i] >> >>
          \o ReSplit(SubSeq(message, i+1, Len(message)))
  ELSE << message >>

\* token.startswith('@'), for a token of the split: a mention, or a text
\* whose first character is '@'
StartsWithAt(token) == token[1] \in MentionTokens \cup { "@" }

\* MessageSegment(text=token, is_mention=True, is_bold=bold, is_italic=italic)
MentionSegment(token, bold, italic) ==
  [text |-> token, is_mention |-> TRUE, is_bold |-> bold, is_italic |-> italic]

\* MessageSegment(text=token, is_bold=bold, is_italic=italic)
TextSegment(token, bold, italic) ==
  [text |-> token, is_mention |-> FALSE, is_bold |-> bold,
   is_italic |-> italic]

\* mutant: a marker leaves the flag as it is
ToggleKeep(flag) == flag

\* `bold = not bold`, `italic = not italic`
Toggle(flag) == ~ flag

InitSegments ==
  /\ ScriptInit /\ image_files = 1 /\ MoreIdle
  /\ p_message \in Messages
  /\ p_tokens = ReSplit(p_message)
  /\ p_bold = FALSE
  /\ p_italic = FALSE
  /\ p_segments = << >>

\* one pass of `for token in tokens`
SegmentStep ==
  /\ p_tokens # << >>
  /\ LET token == Head(p_tokens)
     IN /\ p_tokens' = Tail(p_tokens)
        /\ IF token = << >>
           THEN UNCHANGED << p_bold, p_italic, p_segments >>
           ELSE IF token = << "**" >>
           THEN p_bold' = Toggle(p_bold) /\ UNCHANGED << p_italic, p_segments >>
           ELSE IF token = << "__" >>
           THEN p_italic' = Toggle(p_italic) /\ UNCHANGED << p_bold, p_segments >>
           ELSE IF StartsWithAt(token)
           THEN /\ p_segments' = Append(p_segments,
                                        MentionSegment(token, p_bold, p_italic))
                /\ UNCHANGED << p_bold, p_italic >>
           ELSE /\ p_segments' = Append(p_segments,
                                        TextSegment(token, p_bold, p_italic))
                /\ UNCHANGED << p_bold, p_italic >>
  /\ UNCHANGED << p_message, script_vars, more_vars >>

\* _validate_message_content(line_number, message) on the same message
CheckContent ==
  /\ ~ eof
  /\ eof' = TRUE
  /\ v_errors' =
       IF ValidateMessageContent(p_message) # NoError
       THEN Append(v_errors, [line_number |-> LineNumber,
                              message |-> ValidateMessageContent(p_message)])
       ELSE v_errors
  /\ UNCHANGED << script, v_state, audio_vars, compiler_vars, generator_vars,
                  parser_vars, more_vars >>

NextSegments == SegmentStep \/ CheckContent

SpecSegments == InitSegments /\ [][NextSegments]_vars

(***************************************************************************)
(* ChatGenerator._render_messages over the messages of one block: every    *)
(* message that is not blank goes to _render_text_message, which calls     *)
(* _parse_message_segments on it.  Every message of the exploration holds  *)
(* a letter or a blank, so that is_emoji_message is False.                 *)
(***************************************************************************)
MaxBlock == 2

RenderMessages ==
  { <<"a">>, <<" ">>, <<"**", "a">>, <<"a", "**">>, <<"__", "a">>,
    <<"**", "__", "a", " ", "b">>, <<"**", "a", "**", " ", "b">>,
    <<"@bob", " ", "a">>, <<"a", "**", "b">> }

RenderBlocks == UNION { [1..n -> RenderMessages] : n \in 1..MaxBlock }

\* mutant: the flags of the call before are still there
CallStartKeep(flag) == flag

\* `bold = italic = False` at the top of _parse_message_segments
CallStart(flag) == FALSE

\* `not message.strip()`
BlankMessage(message) == \A i \in 1..Len(message) : message[i] = " "

InitRender ==
  /\ ScriptInit /\ image_files = 1
  /\ ParserIdle
  /\ r_messages \in RenderBlocks
  /\ r_index = 0
  /\ r_done = << >>
  /\ a_clips = << >>
  /\ RerunIdle /\ WrapIdle /\ LayoutIdle /\ InterfaceIdle

\* `for i, message in enumerate(messages)`: a blank message is passed over,
\* any other is handed to _parse_message_segments
RenderMessage ==
  /\ p_message = << >>
  /\ r_index < Len(r_messages)
  /\ r_index' = r_index + 1
  /\ LET message == r_messages[r_index + 1]
     IN IF BlankMessage(message)
        THEN UNCHANGED parser_vars
        ELSE /\ p_message' = message
             /\ p_tokens' = ReSplit(message)
             /\ p_bold' = CallStart(p_bold)
             /\ p_italic' = CallStart(p_italic)
             /\ p_segments' = << >>
  /\ UNCHANGED << r_messages, r_done, script_vars, a_clips, rerun_vars,
                  wrap_vars, layout_vars, ui_vars >>

\* `segments = self._parse_message_segments(message)`: the call returns and
\* the segments are drawn
RenderSegments ==
  /\ p_message # << >>
  /\ p_tokens = << >>
  /\ r_done' = Append(r_done, [message |-> p_message, segments |-> p_segments])
  /\ p_message' = << >>
  /\ UNCHANGED << p_tokens, p_bold, p_italic, p_segments, r_messages, r_index,
                  script_vars, a_clips, rerun_vars, wrap_vars, layout_vars,
                  ui_vars >>

NextRender == RenderMessage \/ SegmentStep \/ RenderSegments

SpecRender == InitRender /\ [][NextRender]_vars

(***************************************************************************)
(* The timeline parsers (AudioProcessor._parse_script_audio_events and     *)
(* VideoCompiler._parse_script) and the segment parser, each run twice on  *)
(* the same input: the script file x_script and the message p_message.     *)
(* Every run starts with the assignments at the top of the functions.      *)
(***************************************************************************)
MaxRerunLines == 2

RerunLines ==
  { << >>,
    <<"Alice", ":">>,
    <<"hi", "$^", "2.0">>,
    <<"yo", "$^", "3.5", "#!", "chime">>,
    <<"hm", "$^", "abc">>,
    <<"oh", "$^", "2.0", "$^", "3.5">>,
    <<"WELCOME", "Alice", "$^", "2.0">>,
    <<"WELCOME", "Bob", "$^", "1.0", "#!", "chime">>,
    <<"WELCOME", "Bob">> }

RerunScripts == UNION { [1..n -> RerunLines] : n \in 1..MaxRerunLines }

RerunMessages ==
  { <<"a">>, <<"**", "a">>, <<"__", "a", "**", "b">>, <<"@bob", " ", "a">> }

\* mutant: the clock of the run before is still there
StartTimeKeep(time) == time

\* `current_time = 0.0` at the top of _parse_script_audio_events
StartTime(time) == 0

\* what the parsers have returned, or raised
Returned ==
  [events |-> a_events, audio_raised |-> a_raised, frames |-> c_frames,
   compiler_raised |-> c_raised, segments |-> p_segments]

InitRerun ==
  /\ ScriptInit /\ image_files = 1
  /\ x_script \in RerunScripts
  /\ x_run = 1
  /\ x_first = << >>
  /\ p_message \in RerunMessages
  /\ p_tokens = ReSplit(p_message)
  /\ p_bold = FALSE
  /\ p_italic = FALSE
  /\ p_segments = << >>
  /\ RenderIdle /\ a_clips = << >> /\ WrapIdle /\ LayoutIdle /\ InterfaceIdle

\* both timeline parsers read the next line of the file
RerunReadLine ==
  /\ Len(script) < Len(x_script)
  /\ LET line == x_script[Len(script) + 1]
     IN /\ script' = Append(script, line)
        /\ AudioLine(line)
        /\ CompilerLine(line)
  /\ UNCHANGED << eof, generator_vars, validator_vars, parser_vars, more_vars >>

\* the first run is over: the three parsers are called again on the same
\* input, and their locals are assigned afresh
RunAgain ==
  /\ x_run = 1
  /\ Len(script) = Len(x_script)
  /\ p_tokens = << >>
  /\ x_run' = 2
  /\ x_first' = Returned
  /\ script' = << >>
  /\ a_name_up_next' = TRUE
  /\ a_time' = StartTime(a_time)
  /\ a_lines' = << >>
  /\ a_events' = << >>
  /\ a_raised' = FALSE
  /\ c_frames' = << >>
  /\ c_index' = 0
  /\ c_raised' = FALSE
  /\ p_tokens' = ReSplit(p_message)
  /\ p_bold' = CallStart(p_bold)
  /\ p_italic' = CallStart(p_italic)
  /\ p_segments' = << >>
  /\ UNCHANGED << p_message, x_script, eof, image_files, c_clips,
                  generator_vars, validator_vars, render_vars, a_clips,
                  wrap_vars, layout_vars, ui_vars >>

NextRerun == RerunReadLine \/ SegmentStep \/ RunAgain

SpecRerun == InitRerun /\ [][NextRerun]_vars

(***************************************************************************)
(* scripts/messages.py: the canvas height calculate_required_height gives  *)
(* and the y offset generate_messages reaches on the same messages.  A     *)
(* message is [reply_to, reactions, content]; its content is one line, a   *)
(* run of formatted words written without blanks between them (as in       *)
(* `**aaaa**__bbbb__`), given as the list of the lengths of the words:     *)
(* parse_markdown makes one segment of each.  font.getlength is a fixed    *)
(* width for the blank and a fixed width for every other character.        *)
(***************************************************************************)
MaxSegments == 2

MaxMessages == 2

\* config.MAX_MESSAGE_WIDTH
MAX_MESSAGE_WIDTH == 600

\* config.LINE_SPACING
LINE_SPACING == 25

\* config.REPLY_SPACING
REPLY_SPACING == 8

\* config.REACTION_PILL_HEIGHT
REACTION_PILL_HEIGHT == 30

\* the lengths of the words of the exploration, in characters
WordLengths == { 2, 4 }

\* font.getlength(" ") and font.getlength("a"): a fixed-pitch font and a
\* proportional one
Measures == { [blank |-> 100, a |-> 100], [blank |-> 50, a |-> 100] }

ContentLines == UNION { [1..n -> WordLengths] : n \in 0..MaxSegments }

LayoutMessages ==
  [reply_to : BOOLEAN, reactions : BOOLEAN, content : ContentLines]

MessageLists == UNION { [1..n -> LayoutMessages] : n \in 0..MaxMessages }

\* the sum of the entries of a list of numbers
RECURSIVE Sum(_)
Sum(numbers) ==
  IF numbers = << >> THEN 0 ELSE Head(numbers) + Sum(Tail(numbers))

\* textwrap.wrap of a text of `length` characters that holds no blank: the
\* lengths of the pieces, each of `width` characters but the last
RECURSIVE Chunks(_, _)
Chunks(length, width) ==
  IF length = 0 THEN << >>
  ELSE IF length <= width THEN << length >>
  ELSE << width >> \o Chunks(length - width, width)

\* `int(max_width // char_width) if char_width else 50`
CharsPerLine(char_width) ==
  IF char_width # 0 THEN MAX_MESSAGE_WIDTH \div char_width ELSE 50

\* estimate_text_height of a content of one line: the markers are removed,
\* the plain line is wrapped by characters at the width of a blank
EstimateTextHeight(content, measure) ==
  LET plain_line == Sum(content)
      approx_chars == CharsPerLine(measure.blank)
      wrapped == Chunks(plain_line, approx_chars)
      total_lines == IF Len(wrapped) > 1 THEN Len(wrapped) ELSE 1
  IN total_lines * LINE_SPACING

\* calculate_required_height, from y_offset on
RECURSIVE CalculateRequiredHeight(_, _, _)
CalculateRequiredHeight(messages, measure, y_offset) ==
  IF messages = << >> THEN y_offset
  ELSE LET msg == Head(messages)
           reply == IF msg.reply_to THEN 30 + REPLY_SPACING ELSE 0
           reactions == IF msg.reactions THEN REACTION_PILL_HEIGHT + 10 ELSE 0
       IN CalculateRequiredHeight(Tail(messages), measure,
            y_offset + reply + LINE_SPACING
            + EstimateTextHeight(msg.content, measure) + reactions + 20)

\* `words = textwrap.wrap(seg["text"], width=available_chars, ...)` of every
\* segment in turn, the words given by their lengths
RECURSIVE SegmentWords(_, _)
SegmentWords(content, measure) ==
  IF content = << >> THEN << >>
  ELSE Chunks(Head(content), CharsPerLine(measure.a))
       \o SegmentWords(Tail(content), measure)

\* the loop `for word in words` of draw_formatted_text with start_x = 0:
\* the y the last word is drawn at
RECURSIVE DrawWords(_, _, _, _)
DrawWords(words, measure, x, y) ==
  IF words = << >> THEN y
  ELSE LET word_width == Head(words) * measure.a
       IN IF x + word_width > MAX_MESSAGE_WIDTH
          THEN DrawWords(Tail(words), measure, word_width, y + LINE_SPACING)
          ELSE DrawWords(Tail(words), measure, x + word_width, y)

\* draw_formatted_text: `return y + config.LINE_SPACING`
DrawFormattedText(content, measure, start_y) ==
  DrawWords(SegmentWords(content, measure), measure, 0, start_y)
  + LINE_SPACING

InitLayout ==
  /\ ScriptInit /\ image_files = 1 /\ ParserIdle
  /\ l_messages \in MessageLists
  /\ l_measure \in Measures
  /\ l_required = 0
  /\ l_y_offset = 0
  /\ RenderIdle /\ a_clips = << >> /\ RerunIdle /\ WrapIdle /\ InterfaceIdle

\* the head of generate_messages: the canvas is made required_height high
\* and y_offset starts at 15
RequiredHeight ==
  /\ l_required = 0
  /\ l_required' = CalculateRequiredHeight(l_messages, l_measure, 15)
  /\ l_y_offset' = 15
  /\ UNCHANGED << l_messages, l_measure, script_vars, parser_vars, render_vars,
                  a_clips, rerun_vars, wrap_vars, ui_vars >>

\* one pass of `for msg in messages` of generate_messages
DrawMessage ==
  /\ l_required # 0
  /\ l_messages # << >>
  /\ LET msg == Head(l_messages)
         after_reply == IF msg.reply_to THEN l_y_offset + 30 + REPLY_SPACING
                        ELSE l_y_offset
         after_name == after_reply + LINE_SPACING
         after_content == DrawFormattedText(msg.content, l_measure, after_name)
         after_reactions == IF msg.reactions
                            THEN after_content + REACTION_PILL_HEIGHT + 10
                            ELSE after_content
     IN l_y_offset' = after_reactions + 20
  /\ l_messages' = Tail(l_messages)
  /\ UNCHANGED << l_measure, l_required, script_vars, parser_vars, render_vars,
                  a_clips, rerun_vars, wrap_vars, ui_vars >>

NextLayout == RequiredHeight \/ DrawMessage

SpecLayout == InitLayout /\ [][NextLayout]_vars

(***************************************************************************)
(* utils/helpers.py: wrap_text(text, width, font).  The text is the list   *)
(* of its words (text.split()), a line is the list of the words joined in  *)
(* it, and the font has a fixed character width.                           *)
(***************************************************************************)
MaxWords == 3

\* font.getlength of one character
CharWidth == 10

Words == { "a", "bb", "cccc" }

Widths == { 30, 50, 80 }

Texts == UNION { [1..n -> Words] : n \in 0..MaxWords }

\* font.getlength(word + ' ')
WordWidth(word) == (Len(word) + 1) * CharWidth

\* mutant: every word is taken into the current line
FitsAlways(current_width, word_width, width) == TRUE

\* `current_width + word_width <= width`
Fits(current_width, word_width, width) == current_width + word_width <= width

\* the loop `for word in text.split()` and the lines after it
RECURSIVE WrapLoop(_, _, _, _, _)
WrapLoop(words, width, lines, current_line, current_width) ==
  IF words = << >>
  THEN IF current_line # << >> THEN Append(lines, current_line) ELSE lines
  ELSE LET word == Head(words)
           word_width == WordWidth(word)
       IN IF Fits(current_width, word_width, width)
          THEN WrapLoop(Tail(words), width, lines,
                        Append(current_line, word), current_width + word_width)
          ELSE WrapLoop(Tail(words), width, Append(lines, current_line),
                        << word >>, word_width)

InitWrap ==
  /\ ScriptInit /\ image_files = 1 /\ ParserIdle
  /\ w_text \in Texts
  /\ w_width \in Widths
  /\ w_called = FALSE
  /\ w_lines = << >>
  /\ RenderIdle /\ a_clips = << >> /\ RerunIdle /\ LayoutIdle /\ InterfaceIdle

\* wrap_text(text, width, font) is called and returns its lines
WrapText ==
  /\ ~ w_called
  /\ w_called' = TRUE
  /\ w_lines' = WrapLoop(w_text, w_width, << >>, << >>, 0)
  /\ UNCHANGED << w_text, w_width, script_vars, parser_vars, render_vars,
                  a_clips, rerun_vars, layout_vars, ui_vars >>

NextWrap == WrapText

SpecWrap == InitWrap /\ [][NextWrap]_vars

(***************************************************************************)
(* validate and process_script on the same script, with name lines of a    *)
(* character of characters.json and of one that is not in it.              *)
(***************************************************************************)
AgreeLines ==
  { << >>,
    <<"Alice", ":">>,
    <<"Zed", ":">>,
    <<"hi", "$^", "2.0">>,
    <<"yo", "$^", "3.5", "#!", "chime">> }

\* the consumers read the next line of the script
ReadAgreeLine == \E line \in AgreeLines : ReadLine(line)

NextAgree == ReadAgreeLine \/ Finish

SpecAgree == Init /\ [][NextAgree]_vars

(***************************************************************************)
(* ui/interface.py: BelugaUI.  A menu is the list of the labels of its     *)
(* items; every pass of the loop of run reads one key in _handle_input.    *)
(* Of run_generate_chat the model keeps what happens to the file           *)
(* Paths.FINAL_VIDEO; drawing and the dialogs are left out.                *)
(***************************************************************************)
\* the menu of _init_main_menu
MainMenu == << "Generate Video", "Validate Script", "Instructions", "Exit" >>

\* instructions_menu of show_instructions
InstructionsMenu == << "Formatting Guide", "Sound Effects", "Back" >>

\* current_menu = self.menu_stack[-1]
CurrentMenu == menu_stack[Len(menu_stack)]

\* how a call of run_generate_chat can go: the dialog is cancelled, an
\* exception is caught before the video is written, or the video is written
ChatOutcomes == { "cancelled", "failed", "generated" }

InitInterface ==
  /\ ScriptInit /\ image_files = 1 /\ ParserIdle
  /\ menu_stack = << MainMenu >>
  /\ current_row = 0
  /\ should_exit = FALSE
  /\ final_video \in BOOLEAN
  /\ u_chat = [outcome |-> "none", video_before |-> FALSE]
  /\ u_handler = "none"
  /\ u_raised = FALSE
  /\ RenderIdle /\ a_clips = << >> /\ RerunIdle /\ WrapIdle /\ LayoutIdle

\* `while not self.should_exit`, and no exception has ended run
Running == ~ should_exit /\ ~ u_raised

\* `max(0, self.current_row - 1)`
RowUp(row) == IF row - 1 > 0 THEN row - 1 ELSE 0

\* `min(len(menu_items)-1, self.current_row + 1)`
RowDown(row, menu_items) ==
  IF row + 1 < Len(menu_items) - 1 THEN row + 1 ELSE Len(menu_items) - 1

\* key in [curses.KEY_UP, ord('k')]
KeyUp ==
  /\ Running
  /\ current_row' = RowUp(current_row)
  /\ UNCHANGED << menu_stack, should_exit, final_video, u_chat, u_handler,
                  u_raised >>
  /\ UNCHANGED << script_vars, parser_vars, render_vars, a_clips, rerun_vars,
                  wrap_vars, layout_vars >>

\* key in [curses.KEY_DOWN, ord('j')]
KeyDown ==
  /\ Running
  /\ current_row' = RowDown(current_row, CurrentMenu)
  /\ UNCHANGED << menu_stack, should_exit, final_video, u_chat, u_handler,
                  u_raised >>
  /\ UNCHANGED << script_vars, parser_vars, render_vars, a_clips, rerun_vars,
                  wrap_vars, layout_vars >>

\* run_generate_chat: the final video is unlinked first, then the dialog is
\* shown; a new video is there only when nothing failed
RunGenerateChat ==
  \E outcome \in ChatOutcomes :
    /\ u_chat' = [outcome |-> outcome, video_before |-> final_video]
    /\ final_video' = (outcome = "generated")
    /\ UNCHANGED << menu_stack, current_row, should_exit, u_raised >>

\* show_instructions
ShowInstructions ==
  /\ menu_stack' = Append(menu_stack, InstructionsMenu)
  /\ current_row' = 0
  /\ UNCHANGED << should_exit, final_video, u_chat, u_raised >>

\* exit_app
ExitApp ==
  /\ should_exit' = TRUE
  /\ UNCHANGED << menu_stack, current_row, final_video, u_chat, u_raised >>

\* show_formatting_help calls self._draw_text_screen, which BelugaUI does
\* not have: AttributeError, caught nowhere
ShowFormattingHelp ==
  /\ u_raised' = TRUE
  /\ UNCHANGED << menu_stack, current_row, should_exit, final_video, u_chat >>

\* run_validate_script, browse_sounds and the `lambda: None` of Back change
\* nothing of the menu
NoMenuChange ==
  UNCHANGED << menu_stack, current_row, should_exit, final_video, u_chat,
               u_raised >>

\* key in [curses.KEY_ENTER, 10, 13]: menu_items[self.current_row].handler()
KeyEnter ==
  /\ Running
  /\ LET label == CurrentMenu[current_row + 1]
     IN /\ u_handler' = label
        /\ CASE label = "Generate Video" -> RunGenerateChat
             [] label = "Instructions" -> ShowInstructions
             [] label = "Exit" -> ExitApp
             [] label = "Formatting Guide" -> ShowFormattingHelp
             [] OTHER -> NoMenuChange
  /\ UNCHANGED << script_vars, parser_vars, render_vars, a_clips, rerun_vars,
                  wrap_vars, layout_vars >>

\* key == ord('q')
KeyQ ==
  /\ Running
  /\ should_exit' = TRUE
  /\ UNCHANGED << menu_stack, current_row, final_video, u_chat, u_handler,
                  u_raised >>
  /\ UNCHANGED << script_vars, parser_vars, render_vars, a_clips, rerun_vars,
                  wrap_vars, layout_vars >>

NextInterface == KeyUp \/ KeyDown \/ KeyEnter \/ KeyQ

SpecInterface == InitInterface /\ [][NextInterface]_vars

(***************************************************************************)
(* Vocabulary of the claims.                                               *)
(***************************************************************************)
\* the sum of the durations of the entries of evs read before line ln
RECURSIVE PriorDuration(_, _)
PriorDuration(evs, ln) ==
  IF evs = << >> THEN 0
  ELSE (IF Head(evs).line < ln THEN Head(evs).duration ELSE 0)
       + PriorDuration(Tail(evs), ln)

\* the line has produced an entry of evs
Emitted(evs, ln) == \E k \in 1..Len(evs) : evs[k].line = ln

\* a line is being read in this step, and it is script'[Len(script')]
Reading == Len(script') = Len(script) + 1

LineRead == script'[Len(script')]

\* the lines that have produced the entries of evs, and their durations
EmittedLines(evs) == [k \in 1..Len(evs) |-> evs[k].line]

EmittedDurations(evs) == [k \in 1..Len(evs) |-> evs[k].duration]

\* not blank, not a comment, not WELCOME, and holds $^
HasDurationField(line) ==
  ~ IsBlank(line) /\ ~ IsComment(line) /\ ~ IsWelcome(line)
  /\ Contains(line, "$^")

\* the duration text after the first $^ and before the first #! is a number
NumericDuration(line) == FloatOk(DurationStr(SplitFirst(line, "$^")[2]))

\* the duration text as the audio parser cuts it out: line.split('$^', 1)[1]
\* up to the first #!
AudioDurationText(line) == DurationStr(SplitFirst(line, "$^")[2])

\* the duration text as the compiler and the generator cut it out:
\* line.split('$^')[1] up to the first #!
CompilerDurationText(line) == DurationStr(SplitAll(line, "$^")[2])

(***************************************************************************)
(* C1: in the audio parser and in _process_audio, the start time of every  *)
(* sound cue is the sum of the durations of all events emitted before it,  *)
(* silent ones included; the audio clock is that running total; the first  *)
(* event starts at 0.                                                      *)
(***************************************************************************)
C1_CumulativeStart ==
  /\ \A i \in 1..Len(a_events) :
       a_events[i].start_time = PriorDuration(a_lines, a_events[i].line)
  /\ a_time = PriorDuration(a_lines, LineNumber)
  /\ \A i \in 1..Len(c_clips) :
       c_clips[i].start = PriorDuration(c_frames, c_clips[i].line)
  /\ (a_events # << >> /\ a_events[1].line = a_lines[1].line)
       => a_events[1].start_time = 0

\* a cue of each timeline that starts after 0 and follows a silent event,
\* in the audio parser a silent WELCOME event
C1_Witness ==
  /\ eof
  /\ \E i \in 1..Len(a_events) :
       /\ a_events[i].start_time > 0
       /\ \E k \in 1..Len(a_lines) :
            /\ a_lines[k].line < a_events[i].line
            /\ a_lines[k].sound = NoSound
            /\ a_lines[k].kind = "welcome"
  /\ \E i \in 1..Len(c_clips) :
       /\ c_clips[i].start > 0
       /\ \E k \in 1..Len(c_frames) :
            c_frames[k].line < c_clips[i].line /\ c_frames[k].sound = NoSound

(***************************************************************************)
(* C2: as claimed, of any two cues of the audio parser the later one never *)
(* starts before the earlier one, whatever durations the script gives.     *)
(***************************************************************************)
C2_StartsNeverDecrease ==
  \A i, j \in 1..Len(a_events) :
    i < j => a_events[i].start_time <= a_events[j].start_time

(***************************************************************************)
(* C2, amended: when every duration parsed so far is at least 0, of any    *)
(* two cues of the audio parser the later one never starts before the      *)
(* earlier one, and the clock is not before any of them.                   *)
(***************************************************************************)
C2_MonotoneForNonNegative ==
  (\A k \in 1..Len(a_lines) : a_lines[k].duration >= 0)
    => /\ \A i, j \in 1..Len(a_events) :
            i < j => a_events[i].start_time <= a_events[j].start_time
       /\ \A i \in 1..Len(a_events) : a_events[i].start_time <= a_time

\* three cues in a script of non-negative durations
C2_Witness ==
  /\ \A k \in 1..Len(a_lines) : a_lines[k].duration >= 0
  /\ Len(a_events) >= 3
  /\ a_events[1].start_time < a_events[3].start_time

(***************************************************************************)
(* C3: reading a message line whose duration text, as the consumer cuts it *)
(* out, is not a number adds no event in the audio parser and no frame in  *)
(* the compiler, leaves the audio clock and the compiler's index as they   *)
(* were, and raises in neither, so the lines after it are read as if it    *)
(* were absent.                                                            *)
(***************************************************************************)
C3_BadDurationDropped ==
  [][ (Reading /\ HasDurationField(LineRead))
        => /\ ~ FloatOk(AudioDurationText(LineRead))
                => /\ a_lines' = a_lines /\ a_events' = a_events
                   /\ a_time' = a_time /\ a_raised' = a_raised
           /\ ~ FloatOk(CompilerDurationText(LineRead))
                => /\ c_frames' = c_frames /\ c_index' = c_index
                   /\ c_raised' = c_raised ]_vars

\* a line read after such a line has produced an event and a frame
C3_Witness ==
  \E i, j \in 1..Len(script) :
    /\ i < j
    /\ HasDurationField(script[i])
    /\ ~ FloatOk(AudioDurationText(script[i]))
    /\ ~ FloatOk(CompilerDurationText(script[i]))
    /\ Emitted(a_lines, j) /\ Emitted(c_frames, j)

(***************************************************************************)
(* The block structure of the script, as the claims word it: a blank line  *)
(* ends the block, and the first line holding ':' that is no comment and   *)
(* no WELCOME line names the speaker of the block.                         *)
(***************************************************************************)
RECURSIVE AwaitingName(_)
AwaitingName(lines) ==
  IF lines = << >> THEN TRUE
  ELSE LET before == SubSeq(lines, 1, Len(lines) - 1)
           line == lines[Len(lines)]
       IN IF IsBlank(line) THEN TRUE
          ELSE IF IsComment(line) \/ IsWelcome(line) THEN AwaitingName(before)
          ELSE IF Contains(line, ":") THEN FALSE
          ELSE AwaitingName(before)

\* no speaker is set when line i of the script is read
NoSpeakerAt(i) == AwaitingName(SubSeq(script, 1, i - 1))

\* line i is a message line read with a speaker set, with a numeric duration
GoodMessageAt(i) ==
  /\ HasDurationField(script[i]) /\ NumericDuration(script[i])
  /\ ~ NoSpeakerAt(i)

\* line i is a WELCOME line of a known character with a numeric duration
GoodWelcomeAt(i) ==
  /\ IsWelcome(script[i]) /\ Len(script[i]) >= 2
  /\ Contains(script[i], "$^") /\ NumericDuration(script[i])
  /\ KnownCharacter(WelcomeName(script[i]))

\* line i is malformed in one of the three ways of C4
MalformedAt(i) ==
  \/ HasDurationField(script[i]) /\ ~ NumericDuration(script[i])
  \/ IsWelcome(script[i]) /\ ~ Contains(script[i], "$^")
  \/ HasDurationField(script[i]) /\ ~ Contains(script[i], ":")
       /\ NoSpeakerAt(i)

(***************************************************************************)
(* C4: as claimed, when exactly one line of the script is malformed        *)
(* (non-numeric duration, WELCOME without $^, message before any name),    *)
(* process_script has saved a frame for every well-formed message and      *)
(* WELCOME line read after it.                                             *)
(***************************************************************************)
C4_GeneratorGoesOn ==
  \A i \in 1..Len(script) :
    (MalformedAt(i) /\ \A k \in 1..Len(script) : k # i => ~ MalformedAt(k))
      => \A j \in (i+1)..Len(script) :
           (GoodMessageAt(j) \/ GoodWelcomeAt(j)) => Emitted(g_frames, j)

(***************************************************************************)
(* C5: as claimed, a message line (holds $^, no WELCOME) read while no     *)
(* speaker is set produces no event in the audio parser, no frame in the   *)
(* compiler and no image in the generator.                                 *)
(***************************************************************************)
C5_SpeakerlessMessageDropped ==
  \A i \in 1..Len(script) :
    (HasDurationField(script[i]) /\ ~ Contains(script[i], ":")
       /\ NoSpeakerAt(i))
      => /\ ~ Emitted(a_lines, i)
         /\ ~ Emitted(c_frames, i)
         /\ ~ Emitted(g_frames, i)

(***************************************************************************)
(* C6: as claimed, when the line read right after a blank line holds ':'   *)
(* and is no comment and no WELCOME line, it is taken as a name line: the  *)
(* audio parser produces no event for it, the generator makes its name the *)
(* current speaker, and the validator checks it as a name line.            *)
(***************************************************************************)
C6_BlankLineResets ==
  LET n == Len(script)
  IN (/\ n >= 2 /\ IsBlank(script[n-1])
      /\ ~ IsComment(script[n]) /\ ~ IsWelcome(script[n])
      /\ Contains(script[n], ":"))
       => /\ ~ a_raised => (~ Emitted(a_lines, n) /\ ~ a_name_up_next)
          /\ ~ g_raised => g_character = SplitAll(script[n], ":")[1]
          /\ v_state = "collecting_messages"

(***************************************************************************)
(* C7: as claimed, every message drawn in a chat image of process_script   *)
(* belongs to the block of the line the image is for: no blank line lies   *)
(* between the message's line and that line.                               *)
(***************************************************************************)
C7_FrameHoldsOneBlock ==
  \A k \in 1..Len(g_frames) :
    \A m \in 1..Len(g_frames[k].messages) :
      \A b \in (g_frames[k].messages[m].line)..(g_frames[k].line) :
        ~ IsBlank(script[b])

C9_WelcomeWithoutDurationDropped ==
  \A i \in 1..Len(script) :
    (IsWelcome(script[i]) /\ ~ Contains(script[i], "$^"))
      => /\ ~ Emitted(a_lines, i)
         /\ ~ Emitted(c_frames, i)
         /\ ~ Emitted(g_frames, i)
         /\ \E e \in 1..Len(v_errors) : v_errors[e].line_number = i
         /\ Len(script) = 1
              => /\ ~ a_raised /\ ~ c_raised /\ ~ g_raised
                 /\ a_time = 0 /\ g_time = 0

(***************************************************************************)
(* C10: as claimed, while no consumer has raised and the compiler has      *)
(* images left, the generator, the compiler and the audio parser have      *)
(* produced an image, a frame and an event for the same lines in the same  *)
(* order, and the compiler and the audio parser with the same durations.   *)
(***************************************************************************)
C10_SameClassification ==
  (~ a_raised /\ ~ c_raised /\ ~ g_raised /\ c_index < image_files)
    => /\ EmittedLines(g_frames) = EmittedLines(c_frames)
       /\ EmittedLines(c_frames) = EmittedLines(a_lines)
       /\ EmittedDurations(c_frames) = EmittedDurations(a_lines)

\* the image files process_script has written into output_dir; writing a
\* file name a second time replaces the file
ImageDir == { OutputStem(g_frames[k].number) : k \in 1..Len(g_frames) }

Reported(ln, message) ==
  \E e \in 1..Len(v_errors) :
    v_errors[e].line_number = ln /\ v_errors[e].message = message

\* the diagnostics the result holds for line ln
DiagnosticsOf(ln) ==
  { e \in 1..Len(v_errors) : v_errors[e].line_number = ln }

\* line i is a message line read right after the name line `Alice:`, so the
\* validator checks it as a message
MessageAfterNameAt(i) ==
  /\ i >= 2 /\ script[i-1] = <<"Alice", ":">>
  /\ HasDurationField(script[i])

\* the text of the message: line.split('$^', 1)[0]
MessageText(line) == SplitFirst(line, "$^")[1]

\* what is to be found on a message line, each finding taken by itself
MessageFindings(line) ==
  { m \in { "Unbalanced bold markers (**)", "Unbalanced italic markers (__)",
            "Invalid duration format", "Duration out of allowed range",
            "Line exceeds maximum length" } :
      \/ m = "Unbalanced bold markers (**)"
           /\ Count(MessageText(line), "**") % 2 # 0
      \/ m = "Unbalanced italic markers (__)"
           /\ Count(MessageText(line), "__") % 2 # 0
      \/ m = "Invalid duration format"
           /\ ~ FloatOk(AudioDurationText(line))
      \/ m = "Duration out of allowed range"
           /\ FloatOk(AudioDurationText(line))
           /\ ~ DurationInRange(Float(AudioDurationText(line)))
      \/ m = "Line exceeds maximum length"
           /\ LineLength(line) > MaxLineLength }

(***************************************************************************)
(* C12: as claimed, the result of validate holds a diagnostic for every    *)
(* finding of every message line: for a message line with an odd number of *)
(* ** and a duration outside the range it holds both diagnostics.          *)
(***************************************************************************)
C12_EveryFindingReported ==
  \A i \in 1..Len(script) :
    MessageAfterNameAt(i)
      => \A m \in MessageFindings(script[i]) : Reported(i, m)

\* line i is read while the validator waits for a name: it is the first
\* line or the line after a blank line
AfterBlankAt(i) == i = 1 \/ (i >= 2 /\ IsBlank(script[i-1]))

\* a name line whose name is empty or holds two blanks in a row
FaultyNameLine(line) ==
  /\ ~ IsComment(line) /\ ~ IsWelcome(line) /\ Contains(line, ":")
  /\ \/ SplitFirst(line, ":")[1] = << >>
     \/ Contains(SplitFirst(line, ":")[1], "  ")

(***************************************************************************)
(* C13: as claimed, a name line with an empty name or with two blanks in a *)
(* row in the name, read while the validator waits for a name, gets one    *)
(* diagnostic and puts the validator into collecting_messages, and the     *)
(* well-formed message line after it gets no diagnostic.                   *)
(***************************************************************************)
C13_FaultyNameStillOpensBlock ==
  \A i \in 1..Len(script) :
    (AfterBlankAt(i) /\ FaultyNameLine(script[i]))
      => /\ Cardinality(DiagnosticsOf(i)) = 1
         /\ i = Len(script) => v_state = "collecting_messages"
         /\ (i < Len(script) /\ script[i+1] = <<"hi", "$^", "2.0">>)
              => DiagnosticsOf(i+1) = {}

\* line i is read inside the block the name line `Alice:` has opened, so the
\* validator checks it as a message
InBlockAt(i) ==
  \E j \in 1..(i-1) :
    /\ script[j] = <<"Alice", ":">> /\ AfterBlankAt(j)
    /\ \A k \in j..(i-1) : ~ IsBlank(script[k])

\* the validator parses the duration of line i: a WELCOME line with a
\* numeric duration text, or a message line of a block with balanced
\* markers and a numeric duration text
DurationParsedAt(i) ==
  \/ /\ IsWelcome(script[i]) /\ Len(script[i]) >= 2
     /\ Contains(script[i], "$^")
     /\ FloatOk(CompilerDurationText(script[i]))
  \/ /\ InBlockAt(i) /\ HasDurationField(script[i])
     /\ Count(MessageText(script[i]), "**") % 2 = 0
     /\ Count(MessageText(script[i]), "__") % 2 = 0
     /\ FloatOk(AudioDurationText(script[i]))

\* float(duration_str) of that line, in tenths of a second
ParsedDuration(line) ==
  IF IsWelcome(line) THEN Float(CompilerDurationText(line))
  ELSE Float(AudioDurationText(line))

Parsed == p_tokens = << >>

\* the position of the last ** of the message, 0 when it holds none
LastBold(message) ==
  IF Contains(message, "**")
  THEN CHOOSE i \in 1..Len(message) :
         /\ message[i] = "**"
         /\ \A j \in (i+1)..Len(message) : message[j] # "**"
  ELSE 0

\* the number of segments the parser makes of a text: one for every token
\* of the split that is not empty and is no ** or __
SegmentCount(text) ==
  Cardinality({ i \in 1..Len(ReSplit(text)) :
                  ReSplit(text)[i] \notin { << >>, <<"**">>, <<"__">> } })

\* the segments made of what follows the last ** of the message
AfterLastBold ==
  LET rest == SubSeq(p_message, LastBold(p_message) + 1, Len(p_message))
  IN { k \in 1..Len(p_segments) :
         k > Len(p_segments) - SegmentCount(rest) }

(***************************************************************************)
(* C15: for a message with an odd number of **, _validate_message_content  *)
(* gives one diagnostic, 'Unbalanced bold markers', and the segment parser *)
(* returns a segment list in which every text segment made of what follows *)
(* the last ** is bold.                                                    *)
(***************************************************************************)
C15_OddBoldRunsToTheEnd ==
  Count(p_message, "**") % 2 # 0
    => /\ eof => v_errors = << [line_number |-> 1,
                               message |-> "Unbalanced bold markers (**)"] >>
       /\ Parsed => \A k \in AfterLastBold :
                      ~ p_segments[k].is_mention => p_segments[k].is_bold

\* three ** in the message, a text that is not bold between the second
\* and the third of them, and a text after the third
C15_Witness ==
  /\ eof /\ Parsed
  /\ Count(p_message, "**") = 3
  /\ \E k \in 1..Len(p_segments) : ~ p_segments[k].is_bold
  /\ \E k \in AfterLastBold : ~ p_segments[k].is_mention

(***************************************************************************)
(* C16: as claimed, every message line of a block whose text holds an '@'  *)
(* with no word character after it gets the diagnostic of the invalid      *)
(* mention.                                                                *)
(***************************************************************************)
C16_LoneAtReported ==
  \A i \in 1..Len(script) :
    (/\ InBlockAt(i) /\ HasDurationField(script[i])
     /\ Contains(MessageText(script[i]), "@"))
      => Reported(i, "Invalid mention format")

(***************************************************************************)
(* C17: as claimed, the result holds the diagnostic of the line length for *)
(* line i exactly when line i is longer than max_line_length, whatever the *)
(* kind of the line.                                                       *)
(***************************************************************************)
C17_LongLineReported ==
  \A i \in 1..Len(script) :
    Reported(i, "Line exceeds maximum length")
      <=> LineLength(script[i]) > MaxLineLength

\* the diagnostics of the result that stand for the file, not for a line
FileDiagnostics == { e \in 1..Len(v_errors) : v_errors[e].line_number = 0 }

NonBlank(text) == \E t \in 1..Len(text) : text[t] # " "

\* the mention tokens of the message, and its runs of text between the
\* markers (the odd entries of the split) that hold more than blanks
MentionCount(message) ==
  Cardinality({ i \in 1..Len(message) : message[i] \in MentionTokens })

NonBlankRunCount(message) ==
  Cardinality({ i \in 1..Len(ReSplit(message)) :
                  i % 2 = 1 /\ NonBlank(ReSplit(message)[i]) })

(***************************************************************************)
(* C19: as claimed, of a message that holds a marker or a mention the      *)
(* segment parser makes one segment for every mention and one for every    *)
(* run of text between markers that holds more than blanks, and no other;  *)
(* of `@alice **bold** plain` it makes three segments: the mention         *)
(* `@alice`, the bold `bold` and the `plain` that is not bold.             *)
(***************************************************************************)
C19_NoSegmentOfBlanks ==
  (Parsed /\ \E i \in 1..Len(p_message) : IsMarker(p_message[i]))
    => /\ Len(p_segments)
            = MentionCount(p_message) + NonBlankRunCount(p_message)
       /\ p_message = <<"@alice", " ", "**", "bold", "**", " ", "plain">>
            => /\ Len(p_segments) = 3
               /\ p_segments[1].is_mention
               /\ p_segments[2].is_bold /\ ~ p_segments[3].is_bold

(***************************************************************************)
(* C20: as claimed, every segment the segment parser returns for a mention *)
(* token has is_bold and is_italic false.                                  *)
(***************************************************************************)
C20_MentionNeverStyled ==
  \A k \in 1..Len(p_segments) :
    (p_segments[k].is_mention /\ p_segments[k].text[1] \in MentionTokens)
      => ~ p_segments[k].is_bold /\ ~ p_segments[k].is_italic


\* the text of the message before its first marker tok, all of it when the
\* message holds none
BeforeFirst(message, tok) ==
  IF Contains(message, tok)
  THEN SubSeq(message, 1, FirstIdx(message, tok) - 1)
  ELSE message

\* the messages of the block drawn so far whose last segment came out bold
\* or italic
DrawnOpen ==
  { k \in 1..Len(r_done) :
      /\ r_done[k].segments # << >>
      /\ LET last == r_done[k].segments[Len(r_done[k].segments)]
         IN last.is_bold \/ last.is_italic }

(***************************************************************************)
(* C21: as claimed, the bold and italic state of the segment parser lives  *)
(* within one message: at the start of every call of the parser both flags *)
(* are cleared, and in every message _render_messages has drawn, the       *)
(* segments made of the text before its first ** are not bold and those    *)
(* made of the text before its first __ are not italic, whatever unclosed  *)
(* marker an earlier message of the block holds.                           *)
(***************************************************************************)
C21_StyleStaysInMessage ==
  /\ (p_message # << >> /\ p_tokens = ReSplit(p_message))
       => (~ p_bold /\ ~ p_italic)
  /\ \A k \in 1..Len(r_done) :
       \A n \in 1..Len(r_done[k].segments) :
         /\ n <= SegmentCount(BeforeFirst(r_done[k].message, "**"))
              => ~ r_done[k].segments[n].is_bold
         /\ n <= SegmentCount(BeforeFirst(r_done[k].message, "__"))
              => ~ r_done[k].segments[n].is_italic

\* two messages of a block are drawn; the first one ended bold or italic on
\* an unclosed marker, and the second one has a segment before any marker
C21_Witness ==
  /\ Len(r_done) = 2
  /\ 1 \in DrawnOpen
  /\ Count(r_done[1].message, "**") % 2 = 1
       \/ Count(r_done[1].message, "__") % 2 = 1
  /\ SegmentCount(BeforeFirst(r_done[2].message, "**")) > 0
  /\ SegmentCount(BeforeFirst(r_done[2].message, "__")) > 0
  /\ ~ r_done[2].segments[1].is_bold
  /\ ~ r_done[2].segments[1].is_italic


\* the second run of the three parsers has come to the end of its input
SecondRunOver ==
  /\ x_run = 2
  /\ Len(script) = Len(x_script)
  /\ p_tokens = << >>

AudioRead(ln, duration, sound) ==
  \E k \in 1..Len(a_lines) :
    /\ a_lines[k].line = ln
    /\ a_lines[k].duration = duration
    /\ a_lines[k].sound = sound

(***************************************************************************)
(* C23: as claimed, the consumers read the same duration and sound name    *)
(* from the same line, each cutting the line at its first $^ only: for     *)
(* every message line without ':' the compiler has made a frame of, the    *)
(* audio parser, unless it has raised, has yielded the same line with the  *)
(* same duration and the same sound name.                                  *)
(***************************************************************************)
C23_SameFieldsInEveryConsumer ==
  \A f \in 1..Len(c_frames) :
    LET ln == c_frames[f].line
    IN (/\ HasDurationField(script[ln])
        /\ ~ Contains(script[ln], ":")
        /\ ~ a_raised)
         => AudioRead(ln, c_frames[f].duration, c_frames[f].sound)


\* generate_messages has drawn every message
AllDrawn == l_required # 0 /\ l_messages = << >>

(***************************************************************************)
(* C24: as claimed, when generate_messages has drawn the messages, its y   *)
(* offset is the canvas height calculate_required_height gave for them:    *)
(* nothing is drawn below the canvas and no space is left over.            *)
(***************************************************************************)
C24_OffsetEqualsCanvasHeight ==
  AllDrawn => l_y_offset = l_required


\* the words of the lines, in the order of the lines
RECURSIVE WordsOf(_)
WordsOf(lines) ==
  IF lines = << >> THEN << >> ELSE Head(lines) \o WordsOf(Tail(lines))

\* the number of characters of the words joined by single blanks
RECURSIVE JoinedLength(_)
JoinedLength(words) ==
  IF words = << >> THEN 0
  ELSE IF Len(words) = 1 THEN Len(words[1])
  ELSE Len(Head(words)) + 1 + JoinedLength(Tail(words))

\* font.getlength of the words joined by single blanks
MeasuredWidth(words) == JoinedLength(words) * CharWidth

(***************************************************************************)
(* C25: as claimed, wrap_text breaks the text between words only: the      *)
(* words of its lines, taken in order, are the words of the text, each of  *)
(* them whole in one line; no line is empty; and every line of more than   *)
(* one word is at most `width` wide.                                       *)
(***************************************************************************)
C25_WrapsBetweenWordsOnly ==
  w_called =>
    /\ WordsOf(w_lines) = w_text
    /\ \A n \in 1..Len(w_lines) : w_lines[n] # << >>
    /\ \A n \in 1..Len(w_lines) :
         Len(w_lines[n]) > 1 => MeasuredWidth(w_lines[n]) <= w_width

\* ceil(a / b) for b > 0
CeilDiv(a, b) == (a + b - 1) \div b

\* the text is wider than the width
WiderThanWidth == MeasuredWidth(w_text) > w_width

\* every word, with the blank wrap_text measures behind it, fits the width
EveryWordFits == \A n \in 1..Len(w_text) : WordWidth(w_text[n]) <= w_width

C27_ValidScriptGenerates ==
  v_errors = << >> =>
    /\ ~ g_raised
    /\ \A i \in 1..Len(script) :
         (IsWelcome(script[i]) \/ HasDurationField(script[i]))
           => Emitted(g_frames, i)


\* the duration of the entry line ln has produced in evs
DurationAt(evs, ln) ==
  evs[CHOOSE k \in 1..Len(evs) : evs[k].line = ln].duration

\* the clips are placed at the start of their events and do not outlast them
InsideWindows(clips, evs) ==
  \A i \in 1..Len(clips) :
    /\ clips[i].start = PriorDuration(evs, clips[i].line)
    /\ clips[i].length <= DurationAt(evs, clips[i].line)

(***************************************************************************)
(* C28: as claimed, every sound cue on the audio track plays inside the    *)
(* window of its own event, in _create_audio_composite and in              *)
(* _process_audio alike: it starts at the start time of the event and      *)
(* lasts at most the duration of the event.                                *)
(***************************************************************************)
C28_CueInsideItsWindow ==
  /\ InsideWindows(a_clips, a_lines)
  /\ InsideWindows(c_clips, c_frames)

\* the same for the clips of _create_audio_composite alone
CompositeInsideWindows == InsideWindows(a_clips, a_lines)


(***************************************************************************)
(* C29: as claimed, choosing 'Back' in the Instructions submenu returns to *)
(* the main menu: when the handler of 'Back' has run last, the menu on top *)
(* of menu_stack is the main menu; and menu_stack never holds more than    *)
(* the main menu and one Instructions submenu.                             *)
(***************************************************************************)
C29_BackReturnsToMainMenu ==
  /\ u_handler = "Back" => CurrentMenu = MainMenu
  /\ Len(menu_stack) <= 2

\* menu_stack is never longer than two menus and never empty
MenuStackBounded == Len(menu_stack) \in 1..2

(***************************************************************************)
(* C30: as claimed, run_generate_chat leaves an existing final video in    *)
(* place when it produces no new one: after a call in which the dialog was *)
(* cancelled or the generation failed, the file Paths.FINAL_VIDEO that     *)
(* existed before the call still exists.                                   *)
(***************************************************************************)
C30_FinalVideoKept ==
  (u_chat.outcome \in { "cancelled", "failed" } /\ u_chat.video_before)
    => final_video

=============================================================================
